---- MODULE Spec2Model ----
(***************************************************************************)
(* The three snake games of the repository (snakeGameAStar.py,             *)
(* snakeGameHeuristic.py, snakeGameHybrid.py): the move-selection policies *)
(* as operators, and main()'s closure state with its two Tk callbacks      *)
(* gameLoop and resetGame as a state machine.                              *)
(*                                                                         *)
(* A cell is a pair <<x, y>>, a snake a sequence of cells, head first.     *)
(* random.choice / random.randint are nondeterministic choices: a policy   *)
(* is the SET of directions it may return, generateOrb the set of cells it *)
(* may return.                                                             *)
(***************************************************************************)
EXTENDS Integers, Sequences, FiniteSets, TLC

VARIABLES
    game,        \* which of the three scripts runs: selects the policy gameLoop calls
    gridSize,    \* main: gridSize
    snake,       \* main: snake
    orb,         \* main: orb
    barriers,    \* main: barriers
    score,       \* main: score
    highscore,   \* main: highscore
    nextMove,    \* gameLoop: nextMove of the last call ("NONE" before the first)
    timers,      \* Tk: the callbacks registered with window.after and not yet run
    pc,          \* "main": main() is about to call gameLoop (line 221); "mainloop": Tk runs
    ticks,       \* history: gameLoop calls made in the current episode
    lastScores,  \* history: <<>> or <<m>>, m the largest final score of the episodes ended
    calls,       \* history: gameLoop calls made in this run
    atCall       \* history: the closure state gameLoop was last called in

vars == <<game, gridSize, snake, orb, barriers, score, highscore, nextMove,
          timers, pc, ticks, lastScores, calls, atCall>>

----------------------------------------------------------------------------
(* Bounds of the model.                                                    *)

\* The game's grid is GridW x GridH (the scripts use 20 x 20): the smallest
\* grid that holds the start snake, whose head (5,5) is then on the border.
GridW == 6
GridH == 8
\* gameLoop calls per run of the script; a run that reaches it is not continued.
MaxCalls == 3
\* The policies as pure functions are applied to every input on the PolW x
\* PolH grid with a snake of up to MaxSnakeLen cells and up to MaxBarriers
\* barriers.
PolW == 3
PolH == 3
MaxSnakeLen == 3
MaxBarriers == 2
\* The A* game on a board without barriers is played on a LineW x LineH grid.
LineW == 4
LineH == 4
\* floodFillArea is applied on a FloodW x FloodH grid, to snakes of up to
\* FloodSnakeLen cells and up to FloodBarriers barriers.
FloodW == 5
FloodH == 5
FloodSnakeLen == 2
FloodBarriers == 1

----------------------------------------------------------------------------
(* Helpers of the policies.                                                *)

Abs(n) == IF n < 0 THEN -n ELSE n

Max(a, b) == IF a >= b THEN a ELSE b

\* The keys of the moves dict, in insertion order (which the iteration,
\* min() and max() see).
Directions == <<"UP", "DOWN", "LEFT", "RIGHT">>

DirectionSet == {Directions[i] : i \in 1..Len(Directions)}

moves(d) ==
    CASE d = "UP"    -> <<0, -1>>
      [] d = "DOWN"  -> <<0, 1>>
      [] d = "LEFT"  -> <<-1, 0>>
      [] d = "RIGHT" -> <<1, 0>>

Step(c, d) == <<c[1] + moves(d)[1], c[2] + moves(d)[2]>>

manhattanDistance(a, b) == Abs(a[1] - b[1]) + Abs(a[2] - b[2])

inBounds(c, gs) == 0 <= c[1] /\ c[1] < gs[1] /\ 0 <= c[2] /\ c[2] < gs[2]

Cells(s) == {s[i] : i \in 1..Len(s)}

\* snake[:-1]
ButLast(s) == SubSeq(s, 1, Len(s) - 1)

GridCells(gs) == {<<x, y>> : x \in 0..(gs[1] - 1), y \in 0..(gs[2] - 1)}

----------------------------------------------------------------------------
(* snakeGameAStar.py: aStarPolicy.                                         *)

\* isValid of aStarPolicy without its test of the snake.
isValidAStarOffSnake(coord, sn, gs, bar) ==
    inBounds(coord, gs) /\ coord \notin bar

\* isValid of aStarPolicy: the whole snake, tail included, is occupied.
isValidAStar(coord, sn, gs, bar) ==
    inBounds(coord, gs) /\ coord \notin Cells(sn) /\ coord \notin bar

\* openSet.sort(key=lambda x: x[0]): a stable sort on the first component.
\* SortKeys(s, ks) is the entries of s whose key is in ks, by ascending key,
\* entries of equal key in the order they have in s.
RECURSIVE SortKeys(_, _)
SortKeys(s, ks) ==
    IF ks = {} THEN <<>>
    ELSE LET k == CHOOSE a \in ks : \A b \in ks : a <= b
         IN  SelectSeq(s, LAMBDA e : e[1] = k) \o SortKeys(s, ks \ {k})

\* The sort left out: the entries stay in the order they were appended in,
\* the newest first.
SortOpenSetNewestFirst(s) == [i \in 1..Len(s) |-> s[Len(s) + 1 - i]]

SortOpenSet(s) == SortKeys(s, {s[i][1] : i \in 1..Len(s)})

\* The entries the for loop of lines 51-55 appends for the expanded entry cur
\* = <<f, gScore, current, path>>, in the order of the moves dict.
Neighbors(cur, visited, sn, ob, gs, bar) ==
    LET ok == SelectSeq(Directions,
                  LAMBDA d : /\ isValidAStar(Step(cur[3], d), sn, gs, bar)
                             /\ Step(cur[3], d) \notin visited)
    IN  [i \in 1..Len(ok) |->
            <<cur[2] + 1 + manhattanDistance(Step(cur[3], ok[i]), ob),
              cur[2] + 1,
              Step(cur[3], ok[i]),
              Append(cur[4], ok[i])>>]

\* The fallback left out: the call returns no direction.
randomChoiceNone(seq) == {"NONE"}

\* random.choice(seq): any element of seq.
randomChoice(seq) == {seq[i] : i \in 1..Len(seq)}

\* More pops than the loop can make: an entry is appended only when a cell is
\* expanded, a cell is expanded once, and an expansion appends at most four.
PopLimit(gs) == 4 * gs[1] * gs[2] + 1

\* aStarPolicy from line 36 on: the set of directions the call may return
\* (random.choice: any of the four) and the number of pops of the while loop.
\* loop(openSet, visited, n) is the while loop of lines 39-58 in the state
\* (openSet, visited) after n pops; a loop still running after PopLimit pops
\* is reported as the result "DIVERGED".
aStarSearch(sn, ob, gs, bar) ==
    LET RECURSIVE loop(_, _, _)
        loop(openSet, visited, n) ==
            IF openSet = <<>> THEN [result |-> randomChoice(Directions), pops |-> n]
            ELSE IF n >= PopLimit(gs) THEN [result |-> {"DIVERGED"}, pops |-> n]
            ELSE LET sorted == SortOpenSet(openSet)
                     cur    == Head(sorted)
                     rest   == Tail(sorted)
                 IN  IF cur[3] = ob
                     THEN [result |-> {IF cur[4] # <<>> THEN cur[4][1] ELSE "UP"},
                           pops   |-> n + 1]
                     ELSE IF cur[3] \in visited
                     THEN loop(rest, visited, n + 1)
                     ELSE loop(rest \o Neighbors(cur, visited \cup {cur[3]}, sn, ob, gs, bar),
                               visited \cup {cur[3]}, n + 1)
    IN  loop(<<<<manhattanDistance(sn[1], ob), 0, sn[1], <<>>>>>>, {}, 0)

aStarPolicy(sn, ob, gs, bar) == aStarSearch(sn, ob, gs, bar).result

----------------------------------------------------------------------------
(* snakeGameHeuristic.py: heuristicPolicy.                                 *)

\* isValid without its test of the barriers.
isValidOffBarriers(coord, sn, gs, bar) ==
    inBounds(coord, gs) /\ coord \notin Cells(ButLast(sn))

\* isValid of heuristicPolicy and hybridPolicy: the tail cell is not occupied.
isValid(coord, sn, gs, bar) ==
    inBounds(coord, gs) /\ coord \notin Cells(ButLast(sn)) /\ coord \notin bar

\* a < b for two keys, tuples of numbers of one length, as Python compares
\* tuples.
KeyLess(a, b) ==
    \E i \in 1..Len(a) : a[i] < b[i] /\ \A j \in 1..(i - 1) : a[j] = b[j]

\* min() left out: the first valid move is taken.
FirstOfAll(keys) == 1

\* min(seq, key=...) and max(seq, key=...): the index of the first element
\* whose key is the least, the greatest, in the sequence of the keys.
FirstMin(keys) ==
    CHOOSE i \in 1..Len(keys) :
        /\ \A j \in 1..Len(keys) : ~KeyLess(keys[j], keys[i])
        /\ \A j \in 1..(i - 1) : KeyLess(keys[i], keys[j])

FirstMax(keys) ==
    CHOOSE i \in 1..Len(keys) :
        /\ \A j \in 1..Len(keys) : ~KeyLess(keys[i], keys[j])
        /\ \A j \in 1..(i - 1) : KeyLess(keys[j], keys[i])

\* validMoves of heuristicPolicy: <<direction, distance to the orb>>.
heuristicValidMoves(sn, ob, gs, bar) ==
    LET ok == SelectSeq(Directions, LAMBDA d : isValid(Step(sn[1], d), sn, gs, bar))
    IN  [i \in 1..Len(ok) |-> <<ok[i], manhattanDistance(Step(sn[1], ok[i]), ob)>>]

heuristicPolicy(sn, ob, gs, bar) ==
    LET validMoves == heuristicValidMoves(sn, ob, gs, bar)
    IN  IF validMoves # <<>>
        THEN {validMoves[FirstMin([i \in 1..Len(validMoves) |-> <<validMoves[i][2]>>])][1]}
        ELSE randomChoice(Directions)

----------------------------------------------------------------------------
(* snakeGameHybrid.py: hybridPolicy.                                       *)

\* The while loop of floodFillArea from the state (queue, visited, area).
RECURSIVE floodFillLoop(_, _, _, _)
floodFillLoop(queue, visited, area, gs) ==
    IF queue = <<>> THEN area
    ELSE LET c   == Head(queue)
             new == SelectSeq(Directions,
                        LAMBDA d : /\ inBounds(Step(c, d), gs)
                                   /\ Step(c, d) \notin visited)
             nbs == [i \in 1..Len(new) |-> Step(c, new[i])]
         IN  floodFillLoop(Tail(queue) \o nbs, visited \cup Cells(nbs), area + 1, gs)

\* floodFillArea with the whole snake, tail included, in visited.
floodFillAreaWholeSnake(start, sn, gs, bar) ==
    floodFillLoop(<<start>>, Cells(sn) \cup bar \cup {start}, 0, gs)

floodFillArea(start, sn, gs, bar) ==
    floodFillLoop(<<start>>, Cells(ButLast(sn)) \cup bar \cup {start}, 0, gs)

\* validMoves of hybridPolicy:
\* <<direction, proximityScore, areaScore, tailDistance>>.
hybridValidMoves(sn, ob, gs, bar) ==
    LET ok == SelectSeq(Directions, LAMBDA d : isValid(Step(sn[1], d), sn, gs, bar))
    IN  [i \in 1..Len(ok) |->
            <<ok[i],
              manhattanDistance(Step(sn[1], ok[i]), ob),
              floodFillArea(Step(sn[1], ok[i]), sn, gs, bar),
              IF Len(sn) > 1 THEN manhattanDistance(Step(sn[1], ok[i]), sn[Len(sn)])
                             ELSE 0>>]

\* The key of line 70 with the distance to the orb put first.
hybridKeyProximityFirst(x) == <<-x[2], x[3], x[4]>>

\* The key of line 70 on a tuple of validMoves.
hybridKey(x) == <<x[3], x[4], -x[2]>>

hybridPolicy(sn, ob, gs, bar) ==
    LET validMoves == hybridValidMoves(sn, ob, gs, bar)
    IN  IF validMoves # <<>>
        THEN {validMoves[FirstMax([i \in 1..Len(validMoves) |-> hybridKey(validMoves[i])])][1]}
        ELSE randomChoice(Directions)

\* The policy the script `g` calls in gameLoop.
Policy(g, sn, ob, gs, bar) ==
    CASE g = "AStar"     -> aStarPolicy(sn, ob, gs, bar)
      [] g = "Heuristic" -> heuristicPolicy(sn, ob, gs, bar)
      [] g = "Hybrid"    -> hybridPolicy(sn, ob, gs, bar)

Games == {"AStar", "Heuristic", "Hybrid"}

\* The policies bind visited to the caller's barriers set: the cells
\* floodFillArea puts into visited before its loop are added to it.
barriersAliased(g, sn, ob, gs, bar) ==
    IF g = "Hybrid" /\ hybridValidMoves(sn, ob, gs, bar) # <<>>
    THEN bar \cup Cells(ButLast(sn))
    ELSE bar

\* The contents of the caller's barriers set when the policy of script g
\* returns.  No policy assigns to an element of, or calls a mutating method
\* on, snake, orb, gridSize or barriers: aStarPolicy and heuristicPolicy only
\* test membership in barriers, and floodFillArea's visited is a set of its
\* own (set(snake[:-1]) | barriers builds a new set, line 31), which the adds
\* of lines 32 and 42 go to.
barriersAfter(g, sn, ob, gs, bar) == bar

----------------------------------------------------------------------------
(* generateBarriers and generateOrb: the sets of values the random draws   *)
(* can produce.                                                            *)

maxBarrierCells(gs) == (gs[1] * gs[2]) \div 4

\* generateBarriers adds in-bounds cells off the snake and off the given orb
\* until exactly maxBarrierCells are set; with clusters of size 1 every such
\* set can come out.  The model draws from these: the first maxBarrierCells
\* candidate cells in one of the orders of BarrierOrders.
BarrierOrders == {"rows", "columns", "checkerboard", "diagonals"}

BarrierRank(order, c, gs) ==
    CASE order = "rows"      -> c[2] * gs[1] + c[1]
      [] order = "columns"   -> c[1] * gs[2] + c[2]
      [] order = "checkerboard" -> ((c[1] + c[2]) % 2) * gs[1] * gs[2] + c[2] * gs[1] + c[1]
      [] order = "diagonals" ->
            IF c[1] + c[2] <= gs[2]
            THEN (gs[2] - (c[1] + c[2])) * gs[1] + c[1]
            ELSE (gs[2] + 1 + c[1] + c[2]) * gs[1] + c[1]

generateBarriers(gs, sn, ob) ==
    LET cand == GridCells(gs) \ (Cells(sn) \cup {ob})
    IN  { {c \in cand :
              Cardinality({d \in cand : BarrierRank(o, d, gs) < BarrierRank(o, c, gs)})
                  < maxBarrierCells(gs)} : o \in BarrierOrders }

\* generateOrb without its test of the snake.
generateOrbOnSnake(gs, sn, bar) == GridCells(gs) \ bar

generateOrb(gs, sn, bar) == GridCells(gs) \ (Cells(sn) \cup bar)

----------------------------------------------------------------------------
(* main(): the closure state and the callbacks.                            *)

\* The snake main() starts with (line 149) and the one resetGame assigns
\* (line 165).
StartSnake == <<<<5, 5>>, <<5, 6>>, <<5, 7>>>>

ResetSnake == <<<<5, 5>>, <<5, 6>>, <<5, 7>>>>

\* resetGame without its assignment to score.
ScoreNotReset == score

\* The score resetGame assigns (line 168).
ResetScore == 0

\* A timer that stays registered when it fires, as a repeating timer would.
FiredAndKept(tm, i) == tm

\* timers without its i-th entry: the callback Tk is running.
Fired(tm, i) == SubSeq(tm, 1, i - 1) \o SubSeq(tm, i + 1, Len(tm))

Pending(name) == \E i \in 1..Len(timers) : timers[i] = name

\* Line 192 without its test of the snake.
CollidesBarriersOnly(newHead, sn, bar) == newHead \in bar

\* Line 192 with a test of the bounds added.
CollidesOrOutside(newHead, sn, bar) ==
    newHead \in Cells(sn) \/ newHead \in bar \/ ~inBounds(newHead, gridSize)

\* Line 192: the collision test.
Collides(newHead, sn, bar) == newHead \in Cells(sn) \/ newHead \in bar

\* Line 200 without the max, and line 200 left out.
GameOverHighscoreLast(hs, sc) == sc

GameOverHighscoreKept(hs, sc) == hs

\* Line 200: highscore on a game over with final score sc.
GameOverHighscore(hs, sc) == Max(hs, sc)

\* Line 203 left out: the call goes on to line 218.
GameOverTimersNoReturn(tm) == Append(Append(tm, "resetGame"), "gameLoop")

\* Lines 202-203: the game over registers resetGame and returns.
GameOverTimers(tm) == Append(tm, "resetGame")

\* Line 205: the body moves one cell.
Shifted(sn, newHead) == <<newHead>> \o ButLast(sn)

\* Line 209 left out.
GrownNot(sn) == sn

\* Line 209: snake.append(snake[-1]).
Grown(sn) == Append(sn, sn[Len(sn)])

\* Line 189 left out: a move costs nothing.
ScoredNoCost(sc, collected) == IF collected THEN sc + 100 ELSE sc

\* Lines 189 and 211: the score after a call made at score sc.
Scored(sc, collected) == IF collected THEN sc - 1 + 100 ELSE sc - 1

\* The largest final score so far, after a game over at score sc.
Noted(ls, sc) == IF ls = <<>> THEN <<sc>> ELSE <<Max(ls[1], sc)>>

\* The body of gameLoop (lines 172-218), called with snake = sn, orb = ob,
\* barriers = bar, score = sc, after n calls in this episode, tm the timers
\* still registered.
gameLoop(sn, ob, bar, sc, n, tm) ==
    \E mv \in Policy(game, sn, ob, gridSize, bar) :
        LET newHead == Step(sn[1], mv)
        IN  /\ nextMove' = mv
            /\ ticks' = n + 1
            /\ calls' = calls + 1
            /\ atCall' = [snake |-> sn, orb |-> ob, barriers |-> bar, score |-> sc,
                           highscore |-> highscore]
            /\ IF Collides(newHead, sn, bar)
               THEN /\ score' = Scored(sc, FALSE)
                    /\ highscore' = GameOverHighscore(highscore, Scored(sc, FALSE))
                    /\ snake' = sn
                    /\ orb' = ob
                    /\ lastScores' = Noted(lastScores, Scored(sc, FALSE))
                    /\ timers' = GameOverTimers(tm)
               ELSE /\ highscore' = highscore
                    /\ lastScores' = lastScores
                    /\ timers' = Append(tm, "gameLoop")
                    /\ IF newHead = ob
                       THEN /\ snake' = Grown(Shifted(sn, newHead))
                            /\ orb' \in generateOrb(gridSize, Grown(Shifted(sn, newHead)), bar)
                            /\ score' = Scored(sc, TRUE)
                       ELSE /\ snake' = Shifted(sn, newHead)
                            /\ orb' = ob
                            /\ score' = Scored(sc, FALSE)

NoCall == [snake |-> <<>>, orb |-> <<0, 0>>, barriers |-> {}, score |-> 0, highscore |-> 0]

\* main() after its assignments (lines 144-161), before line 221.
Init ==
    /\ game \in Games
    /\ gridSize = <<GridW, GridH>>
    /\ snake = StartSnake
    /\ barriers \in generateBarriers(gridSize, snake, <<0, 0>>)
    /\ orb \in generateOrb(gridSize, snake, barriers)
    /\ score = 0
    /\ highscore = 0
    /\ nextMove = "NONE"
    /\ timers = <<>>
    /\ pc = "main"
    /\ ticks = 0
    /\ lastScores = <<>>
    /\ calls = 0
    /\ atCall = NoCall

\* Lines 221-222: main calls gameLoop itself, then enters the Tk main loop.
Main ==
    /\ pc = "main"
    /\ pc' = "mainloop"
    /\ gameLoop(snake, orb, barriers, score, ticks, timers)
    /\ barriers' = barriersAfter(game, snake, orb, gridSize, barriers)
    /\ UNCHANGED <<game, gridSize>>

\* Tk runs a registered gameLoop.
GameLoopTimer ==
    /\ pc = "mainloop"
    /\ calls < MaxCalls
    /\ \E i \in 1..Len(timers) :
        /\ timers[i] = "gameLoop"
        /\ gameLoop(snake, orb, barriers, score, ticks, Fired(timers, i))
    /\ barriers' = barriersAfter(game, snake, orb, gridSize, barriers)
    /\ UNCHANGED <<game, gridSize, pc>>

\* Tk runs a registered resetGame (lines 163-170): the assignments, then the
\* call of gameLoop on the values just assigned.
ResetGameTimer ==
    /\ pc = "mainloop"
    /\ calls < MaxCalls
    /\ \E i \in 1..Len(timers) :
        /\ timers[i] = "resetGame"
        /\ \E bar \in generateBarriers(gridSize, ResetSnake, <<0, 0>>) :
             \E ob \in generateOrb(gridSize, ResetSnake, bar) :
                /\ barriers' = barriersAfter(game, ResetSnake, ob, gridSize, bar)
                /\ gameLoop(ResetSnake, ob, bar, ResetScore, 0, Fired(timers, i))
    /\ UNCHANGED <<game, gridSize, pc>>

Next == Main \/ GameLoopTimer \/ ResetGameTimer

Spec == Init /\ [][Next]_vars

----------------------------------------------------------------------------
(* The policies as pure functions: one call of a policy on an input drawn  *)
(* from the well-formed inputs within the bounds.                          *)

\* A snake as gameLoop builds them: consecutive cells adjacent, no cell
\* twice, but for the tail cell that may be doubled (line 209).
WellFormedSnake(s, gs) ==
    /\ Len(s) >= 1
    /\ \A i \in 1..Len(s) : inBounds(s[i], gs)
    /\ \A i \in 1..(Len(s) - 1) :
          \/ manhattanDistance(s[i], s[i + 1]) = 1
          \/ i = Len(s) - 1 /\ s[i] = s[i + 1]
    /\ \A i, j \in 1..Len(s) : (i < j /\ s[i] = s[j]) => (i = Len(s) - 1 /\ j = Len(s))

Snakes(gs) ==
    {s \in UNION {[1..n -> GridCells(gs)] : n \in 1..MaxSnakeLen} : WellFormedSnake(s, gs)}

\* The subsets of S of at most k elements.
RECURSIVE SubsetsUpTo(_, _)
SubsetsUpTo(S, k) ==
    IF k = 0 THEN {{}}
    ELSE LET smaller == SubsetsUpTo(S, k - 1)
         IN  smaller \cup {T \cup {c} : T \in smaller, c \in S}

PolicyInit ==
    /\ game \in Games
    /\ gridSize = <<PolW, PolH>>
    /\ snake \in Snakes(gridSize)
    /\ barriers \in SubsetsUpTo(GridCells(gridSize), MaxBarriers)
    /\ orb \in GridCells(gridSize)
    /\ score = 0
    /\ highscore = 0
    /\ nextMove = "NONE"
    /\ timers = <<>>
    /\ pc = "call"
    /\ ticks = 0
    /\ calls = 0
    /\ lastScores = <<>>
    /\ atCall = NoCall

Returns(policy) ==
    /\ pc = "call"
    /\ game = policy
    /\ nextMove' \in Policy(policy, snake, orb, gridSize, barriers)
    /\ barriers' = barriersAfter(policy, snake, orb, gridSize, barriers)
    /\ pc' = "returned"
    /\ UNCHANGED <<game, gridSize, snake, orb, score, highscore,
                   timers, ticks, lastScores, calls, atCall>>

CallAStar == Returns("AStar")

CallHeuristic == Returns("Heuristic")

CallHybrid == Returns("Hybrid")

PolicyNext == CallAStar \/ CallHeuristic \/ CallHybrid

PolicySpec == PolicyInit /\ [][PolicyNext]_vars

----------------------------------------------------------------------------
(* Properties of the games (checked under Spec).                           *)

\* The cell the last gameLoop call computed as newHead (line 186).
LastNewHead == Step(atCall.snake[1], nextMove)

\* The last gameLoop call ended the episode / collected the orb.
LastCallCollided == calls > 0 /\ Collides(LastNewHead, atCall.snake, atCall.barriers)

LastCallCollected == calls > 0 /\ ~LastCallCollided /\ LastNewHead = atCall.orb

\* C1: in every reachable state of the three games every snake cell and
\* every barrier cell lies within the grid.
C1_CellsInBounds ==
    /\ \A i \in 1..Len(snake) : inBounds(snake[i], gridSize)
    /\ \A b \in barriers : inBounds(b, gridSize)

\* C2: in every reachable state (after the setup, after every gameLoop call,
\* a terminating one included, and after every resetGame) the orb is no snake
\* cell and no barrier cell.
C2_OrbFree == orb \notin Cells(snake) /\ orb \notin barriers

\* C2's case: the orb has just been collected and replaced, in an episode
\* that a resetGame started.
C2_Witness == LastCallCollected /\ calls > ticks

\* C6: a gameLoop call whose new head is a snake cell or a barrier cell ends
\* the episode: the score is one less than at the call, highscore is the
\* larger of its old value and that score, snake, orb and barriers are as at
\* the call, and resetGame is registered and no gameLoop.
C6_GameOver ==
    LastCallCollided =>
        /\ score = atCall.score - 1
        /\ highscore = Max(atCall.highscore, atCall.score - 1)
        /\ snake = atCall.snake
        /\ orb = atCall.orb
        /\ barriers = atCall.barriers
        /\ timers = <<"resetGame">>

\* C6's case: a game over that raises highscore.
C6_Witness ==
    /\ LastCallCollided
    /\ atCall.highscore < atCall.score - 1
    /\ nextMove = "DOWN"

\* C7: a gameLoop call whose new head is the orb, and no snake or barrier
\* cell, makes the snake one cell longer and the score 99 larger, and the new
\* orb is no cell of the new snake and no barrier.
C7_Collect ==
    LastCallCollected =>
        /\ Len(snake) = Len(atCall.snake) + 1
        /\ score = atCall.score + 99
        /\ orb \notin Cells(snake)
        /\ orb \notin barriers

\* C7's case: the orb is collected by a snake that has grown before.
C7_Witness == LastCallCollected /\ Len(atCall.snake) > 3

\* The last step was a resetGame: the call it made is the first of an
\* episode and not the first of the run.
AfterReset == ticks = 1 /\ calls > 1

\* C8 as stated: when resetGame has run the snake is [(5,5),(5,6),(5,7)], the
\* score is 0 and highscore is what it was.
C8_ResetState ==
    AfterReset =>
        /\ snake = <<<<5, 5>>, <<5, 6>>, <<5, 7>>>>
        /\ score = 0
        /\ highscore = atCall.highscore

\* C8, amended: resetGame sets the snake to [(5,5),(5,6),(5,7)] and the score
\* to 0 and then calls gameLoop on them; when it returns highscore is what it
\* was, and snake and score are those of that one call: the start snake and
\* -1 after a game over, else the new head before (5,5),(5,6), with -1, or
\* with (5,6) doubled and 99 if the orb was collected.
C8_ResetThenCall ==
    AfterReset =>
        /\ atCall.snake = <<<<5, 5>>, <<5, 6>>, <<5, 7>>>>
        /\ atCall.score = 0
        /\ highscore = atCall.highscore
        /\ \/ LastCallCollided
              /\ snake = <<<<5, 5>>, <<5, 6>>, <<5, 7>>>>
              /\ score = -1
           \/ ~LastCallCollided /\ ~LastCallCollected
              /\ snake = <<LastNewHead, <<5, 5>>, <<5, 6>>>>
              /\ score = -1
           \/ LastCallCollected
              /\ snake = <<LastNewHead, <<5, 5>>, <<5, 6>>, <<5, 6>>>>
              /\ score = 99

\* C8's case: a resetGame in a run that has a highscore to keep.
C8_Witness == AfterReset /\ highscore > 0

\* C9 as stated: once an episode has ended, highscore is the largest final
\* score of the episodes ended.
C9_HighscoreIsLargest == lastScores # <<>> => highscore = lastScores[1]

\* C9, amended: highscore is the larger of 0, its value at the start, and the
\* largest final score of the episodes ended so far; no step lowers it, and a
\* gameLoop call that does not end the episode, and a resetGame, leave it as
\* it was.
C9_HighscoreRunningMax ==
    /\ highscore = IF lastScores = <<>> THEN 0 ELSE Max(0, lastScores[1])
    /\ calls > 0 =>
          /\ highscore >= atCall.highscore
          /\ ~LastCallCollided => highscore = atCall.highscore
          /\ AfterReset => highscore = atCall.highscore

\* C9's case: the second episode ends below the first one's final score.
C9_Witness ==
    /\ LastCallCollided
    /\ highscore > 0
    /\ score < highscore

\* What resetGame needs to run to its end once Tk calls it: a free cell for
\* generateOrb to return, whatever barriers generateBarriers returned.
ResetCanRun ==
    \A bar \in generateBarriers(gridSize, ResetSnake, <<0, 0>>) :
        generateOrb(gridSize, ResetSnake, bar) # {}

----------------------------------------------------------------------------
(* Properties of the policies (checked under PolicySpec).                  *)

\* The cells a path to the orb may use by C3: in bounds, off the snake (tail
\* included), off the barriers.
FreeCells == GridCells(gridSize) \ (Cells(snake) \cup barriers)

\* The number of steps of a shortest path from a cell of `frontier` to
\* `target` through `free` cells, d steps having been made to reach
\* `frontier`; -1 if there is none.
RECURSIVE Layers(_, _, _, _, _)
Layers(frontier, seen, target, free, d) ==
    IF target \in frontier THEN d
    ELSE IF frontier = {} THEN -1
    ELSE LET next == {c \in free \ seen :
                         \E f \in frontier : manhattanDistance(c, f) = 1}
         IN  Layers(next, seen \cup next, target, free, d + 1)

PathLength(from, target, free) == Layers({from}, {from}, target, free, 0)

\* C3: when the orb can be reached from the head through free cells,
\* aStarPolicy returns the first direction of a shortest such path: the cell
\* it leads to is free and one step nearer to the orb than the head.
C3_FirstStepOfShortestPath ==
    (pc = "returned" /\ game = "AStar" /\ PathLength(snake[1], orb, FreeCells) > 0) =>
        /\ Step(snake[1], nextMove) \in FreeCells
        /\ PathLength(Step(snake[1], nextMove), orb, FreeCells)
               = PathLength(snake[1], orb, FreeCells) - 1

\* C3's case: the shortest path is a detour, longer than the Manhattan
\* distance, and its first step leads away from the orb.
C3_Witness ==
    /\ pc = "returned" /\ game = "AStar"
    /\ PathLength(snake[1], orb, FreeCells) > manhattanDistance(snake[1], orb)
    /\ manhattanDistance(Step(snake[1], nextMove), orb) > manhattanDistance(snake[1], orb)
    /\ Len(snake) = MaxSnakeLen

\* C4: on every well-formed input each policy returns, and what it returns is
\* one of the four directions; so does aStarPolicy when the orb is enclosed.
C4_ReturnsDirection ==
    /\ pc = "returned" => nextMove \in {"UP", "DOWN", "LEFT", "RIGHT"}
    /\ pc = "call" => Policy(game, snake, orb, gridSize, barriers) # {}

\* C4's case: aStarPolicy has returned with the orb free and out of reach of
\* the head.
C4_Witness ==
    /\ pc = "returned" /\ game = "AStar"
    /\ orb \in FreeCells
    /\ barriers # {}
    /\ PathLength(snake[1], orb, FreeCells) = -1
    /\ nextMove = "LEFT"

\* The directions that lead to a cell in bounds, off the barriers and off
\* the snake but for its tail.
SafeDirections ==
    {d \in DirectionSet :
        /\ inBounds(Step(snake[1], d), gridSize)
        /\ Step(snake[1], d) \notin barriers
        /\ \A i \in 1..(Len(snake) - 1) : snake[i] # Step(snake[1], d)}

\* C5: heuristicPolicy and hybridPolicy return a safe direction whenever
\* there is one, and come to the random fallback only when there is none.
C5_SafeWhenPossible ==
    /\ (pc = "returned" /\ game \in {"Heuristic", "Hybrid"} /\ SafeDirections # {}) =>
            nextMove \in SafeDirections
    /\ (pc = "call" /\ game = "Heuristic" /\ SafeDirections # {}) =>
            heuristicValidMoves(snake, orb, gridSize, barriers) # <<>>
    /\ (pc = "call" /\ game = "Hybrid" /\ SafeDirections # {}) =>
            hybridValidMoves(snake, orb, gridSize, barriers) # <<>>

\* C5's case: the only safe direction leads onto the tail, and away from the
\* orb.
C5_Witness ==
    /\ pc = "returned" /\ game \in {"Heuristic", "Hybrid"}
    /\ SafeDirections = {nextMove}
    /\ Step(snake[1], nextMove) = snake[Len(snake)]
    /\ manhattanDistance(Step(snake[1], nextMove), orb) > manhattanDistance(snake[1], orb)

----------------------------------------------------------------------------
(* The shape of the snake (checked under Spec).                            *)

\* No cell is at two positions of s.
NoCellTwice(s) == \A i, j \in 1..Len(s) : i # j => s[i] # s[j]

\* The last two cells of s are one cell.
TailDoubled(s) == Len(s) >= 2 /\ s[Len(s)] = s[Len(s) - 1]

\* C11: in every reachable state the snake is not empty, consecutive cells
\* are at Manhattan distance 1 and no two cells are equal, but that the last
\* two cells may be one cell; they are one cell only in a snake that a
\* collecting gameLoop call produced (a later call that ends the episode
\* leaves that snake as it is), and after a call that neither ends the
\* episode nor collects the orb no two cells are equal.
C11_SnakeShape ==
    /\ [](/\ Len(snake) >= 1
          /\ \A i \in 1..(Len(snake) - 1) :
                \/ manhattanDistance(snake[i], snake[i + 1]) = 1
                \/ i = Len(snake) - 1 /\ snake[i] = snake[i + 1]
          /\ \A i, j \in 1..Len(snake) :
                (i < j /\ snake[i] = snake[j]) => (i = Len(snake) - 1 /\ j = Len(snake))
          /\ LastCallCollected => TailDoubled(snake)
          /\ (calls > 0 /\ ~LastCallCollided /\ ~LastCallCollected) => NoCellTwice(snake))
    /\ [][TailDoubled(snake') => (snake' = snake \/ LastCallCollected')]_vars

\* C11's case: the call after a collecting call moves the snake on, and the
\* doubled tail cell is gone.
C11_Witness ==
    /\ calls > 1
    /\ TailDoubled(atCall.snake)
    /\ ~LastCallCollided /\ ~LastCallCollected
    /\ Len(snake) = 4
    /\ NoCellTwice(snake)

----------------------------------------------------------------------------
(* The A* game on a board without barriers: main() of snakeGameAStar.py    *)
(* from its call of gameLoop on, on a grid generateBarriers leaves empty,  *)
(* from every start snake of three cells and every orb off it.             *)

LineInit ==
    /\ game = "AStar"
    /\ gridSize = <<LineW, LineH>>
    /\ snake \in {s \in Snakes(gridSize) : Len(s) = 3 /\ s[2] # s[3]}
    /\ barriers = {}
    /\ orb \in generateOrb(gridSize, snake, barriers)
    /\ score = 0
    /\ highscore = 0
    /\ nextMove = "NONE"
    /\ timers = <<>>
    /\ pc = "main"
    /\ ticks = 0
    /\ lastScores = <<>>
    /\ calls = 0
    /\ atCall = NoCall

LineNext == Main \/ GameLoopTimer

LineSpec == LineInit /\ [][LineNext]_vars

\* c lies on a shortest way from a to b and is neither of them; for a and b
\* in one row or column that is the straight segment between them.
Between(c, a, b) ==
    /\ c # a /\ c # b
    /\ manhattanDistance(a, c) + manhattanDistance(c, b) = manhattanDistance(a, b)

\* The head of sn and ob are two cells of one row or one column, and no cell
\* of sn lies on the segment between them or on ob.
StraightLine(sn, ob) ==
    /\ sn[1] # ob
    /\ sn[1][1] = ob[1] \/ sn[1][2] = ob[2]
    /\ \A i \in 1..Len(sn) : sn[i] # ob /\ ~Between(sn[i], sn[1], ob)

\* C12: in the A* game without barriers, a gameLoop call made with head and
\* orb in one row or column, at distance d, and no snake cell between them
\* does not end the episode and moves the head to distance d - 1; for d > 1
\* the orb stays and head and orb are again in one line with no snake cell
\* between them, so that the next call does the same, and for d = 1 the call
\* collects the orb: the head is on the orb after exactly d calls.
C12_StraightRun ==
    (calls > 0 /\ atCall.barriers = {} /\ StraightLine(atCall.snake, atCall.orb)) =>
        /\ LastNewHead \notin Cells(atCall.snake)
        /\ manhattanDistance(LastNewHead, atCall.orb)
               = manhattanDistance(atCall.snake[1], atCall.orb) - 1
        /\ timers = <<"gameLoop">>
        /\ snake[1] = LastNewHead
        /\ IF manhattanDistance(atCall.snake[1], atCall.orb) = 1
           THEN LastCallCollected /\ snake[1] = atCall.orb
           ELSE orb = atCall.orb /\ StraightLine(snake, orb) /\ score = atCall.score - 1

\* C12's case: the third call of a run collects the first orb, which the two
\* calls before it approached (the score tells that no orb was collected
\* before and that no call ended the episode).
C12_Witness ==
    /\ calls = 3 /\ ticks = 3
    /\ score = 97
    /\ atCall.barriers = {}
    /\ StraightLine(atCall.snake, atCall.orb)
    /\ LastCallCollected

----------------------------------------------------------------------------
(* The ranking of the moves (checked under PolicySpec).                    *)

\* The cells that can be reached from a cell of S through cells of free,
\* going from a cell to one of its four neighbours; S included.
\* Grown by layers: the cells of `seen` are reached, those of `frontier`
\* reached last.
RECURSIVE ReachedBy(_, _, _)
ReachedBy(frontier, seen, free) ==
    IF frontier = {} THEN seen
    ELSE LET next == ({Step(f, d) : f \in frontier, d \in DirectionSet} \cap free) \ seen
         IN  ReachedBy(next, seen \cup next, free)

ReachableFrom(S, free) == ReachedBy(S, S, free)

\* The cells a flood fill may enter: in bounds, no barrier, no snake cell
\* other than the tail.
FloodFree == GridCells(gridSize) \ (barriers \cup Cells(ButLast(snake)))

\* The three scores of the move d: the number of cells reachable from the
\* new head, the new head's distance to the tail (0 for a snake of one
\* cell), and its distance to the orb.
AreaScore(d) == Cardinality(ReachableFrom({Step(snake[1], d)}, FloodFree))

TailDistance(d) ==
    IF Len(snake) > 1 THEN manhattanDistance(Step(snake[1], d), snake[Len(snake)]) ELSE 0

ProximityScore(d) == manhattanDistance(Step(snake[1], d), orb)

\* C13: when a direction is valid, hybridPolicy returns a valid direction
\* whose (areaScore, tailDistance, -proximityScore) no valid direction
\* exceeds in the lexicographic order; so no valid direction has a larger
\* reachable area than the one returned.
C13_LexicographicMax ==
    (pc = "returned" /\ game = "Hybrid" /\ SafeDirections # {}) =>
        /\ nextMove \in SafeDirections
        /\ \A d \in SafeDirections :
              /\ AreaScore(d) <= AreaScore(nextMove)
              /\ AreaScore(d) = AreaScore(nextMove) =>
                    /\ TailDistance(d) <= TailDistance(nextMove)
                    /\ TailDistance(d) = TailDistance(nextMove) =>
                          ProximityScore(d) >= ProximityScore(nextMove)

\* C13's case: the move returned has the larger area, and another valid
\* move, of smaller area, leads nearer to the orb and farther from the tail.
C13_Witness ==
    /\ pc = "returned" /\ game = "Hybrid"
    /\ nextMove \in SafeDirections
    /\ \E d \in SafeDirections :
          /\ AreaScore(d) < AreaScore(nextMove)
          /\ ProximityScore(d) < ProximityScore(nextMove)
          /\ TailDistance(d) > TailDistance(nextMove)

\* C14: when a direction is valid, heuristicPolicy returns a valid direction
\* whose new head is at the least Manhattan distance to the orb that a valid
\* direction reaches.
C14_MinDistance ==
    (pc = "returned" /\ game = "Heuristic" /\ SafeDirections # {}) =>
        /\ nextMove \in SafeDirections
        /\ \A d \in SafeDirections : ProximityScore(nextMove) <= ProximityScore(d)

\* C14's case: the last direction of the moves dict is returned, every
\* other direction being valid and farther from the orb.
C14_Witness ==
    /\ pc = "returned" /\ game = "Heuristic"
    /\ nextMove = "RIGHT"
    /\ SafeDirections = DirectionSet
    /\ \A d \in SafeDirections \ {nextMove} : ProximityScore(nextMove) < ProximityScore(d)

----------------------------------------------------------------------------
(* floodFillArea as a pure function: one call of hybridPolicy, which calls *)
(* it on the new head of every valid move, on every input within the       *)
(* Flood bounds.                                                           *)

\* The four corner cells of the grid.
Corners(gs) == {<<x, y>> : x \in {0, gs[1] - 1}, y \in {0, gs[2] - 1}}

\* The orb, which floodFillArea does not read, is drawn from the free corners.
FloodInit ==
    /\ game = "Hybrid"
    /\ gridSize = <<FloodW, FloodH>>
    /\ snake \in {s \in Snakes(gridSize) : Len(s) <= FloodSnakeLen}
    /\ barriers \in SubsetsUpTo(GridCells(gridSize), FloodBarriers)
    /\ orb \in generateOrb(gridSize, snake, barriers) \cap Corners(gridSize)
    /\ score = 0
    /\ highscore = 0
    /\ nextMove = "NONE"
    /\ timers = <<>>
    /\ pc = "call"
    /\ ticks = 0
    /\ calls = 0
    /\ lastScores = <<>>
    /\ atCall = NoCall

FloodNext == CallHybrid

FloodSpec == FloodInit /\ [][FloodNext]_vars

\* The cells of the grid that are not on its border.
Interior(gs) == {c \in GridCells(gs) : 0 < c[1] /\ c[1] < gs[1] - 1 /\ 0 < c[2] /\ c[2] < gs[2] - 1}

\* C15: floodFillArea, called on the new head of a valid move, returns the
\* number of cells of the 4-connected component of the start cell in the set
\* of in-bounds cells that are no barriers and no snake cells other than the
\* tail, the start cell counted; on the 5x5 grid without barriers and
\* without a snake cell other than the tail that is 25 from every interior
\* start cell.
C15_FloodFillIsComponent ==
    (pc = "returned" /\ game = "Hybrid") =>
        /\ \A d \in SafeDirections :
              floodFillArea(Step(snake[1], d), snake, gridSize, barriers) = AreaScore(d)
        /\ (gridSize = <<5, 5>> /\ barriers = {} /\ Len(snake) = 1) =>
              \A d \in SafeDirections :
                  Step(snake[1], d) \in Interior(gridSize) =>
                      floodFillArea(Step(snake[1], d), snake, gridSize, barriers) = 25

\* C15's case: the snake's head and a barrier cut a corner cell off the rest
\* of the grid, and the flood fill has run from that cell and from another.
C15_Witness ==
    /\ pc = "returned" /\ game = "Hybrid"
    /\ gridSize = <<5, 5>>
    /\ \E d, e \in SafeDirections :
          /\ floodFillArea(Step(snake[1], d), snake, gridSize, barriers) = 1
          /\ floodFillArea(Step(snake[1], e), snake, gridSize, barriers) = 22

----------------------------------------------------------------------------
(* The policies and their arguments (checked under PolicySpec).            *)

----------------------------------------------------------------------------
(* The end of an episode (checked under Spec).                             *)

\* C17: a gameLoop call ends the episode (registers resetGame and leaves the
\* snake as it is) if and only if its new head is a cell of the snake, the
\* tail included, or a barrier; in every other case, a new head outside the
\* grid included, the body is shifted and the next gameLoop is registered.
C17_EndsIffCollision ==
    calls > 0 =>
        IF LastNewHead \in Cells(atCall.snake) \cup atCall.barriers
        THEN /\ timers = <<"resetGame">>
             /\ snake = atCall.snake
        ELSE /\ timers = <<"gameLoop">>
             /\ snake[1] = LastNewHead
             /\ SubSeq(snake, 2, Len(atCall.snake)) = ButLast(atCall.snake)

\* C17's case: the new head is outside the grid and the game goes on.
C17_Witness ==
    /\ calls > 0
    /\ ~inBounds(LastNewHead, gridSize)
    /\ timers = <<"gameLoop">>
    /\ snake[1] = LastNewHead

\* C18: in the Greedy and Hybrid games a call whose move leads to
\* a cell in bounds, off the barriers and off the snake but for its tail does
\* not end the episode: the body is shifted and the next gameLoop registered.
C18_ValidMoveSurvives ==
    (/\ calls > 0
     /\ game \in {"Heuristic", "Hybrid"}
     /\ inBounds(LastNewHead, gridSize)
     /\ LastNewHead \notin atCall.barriers
     /\ LastNewHead \notin Cells(ButLast(atCall.snake))) =>
        /\ timers = <<"gameLoop">>
        /\ snake[1] = LastNewHead

\* The cells aStarPolicy may step on at the last call: in bounds, off the
\* snake of the call, off the barriers.
FreeAtCall == GridCells(gridSize) \ (Cells(atCall.snake) \cup atCall.barriers)

\* At the last call the orb could be reached from the head through cells
\* aStarPolicy may step on.
OrbReachableAtCall == PathLength(atCall.snake[1], atCall.orb, FreeAtCall) >= 0

\* C19: in the A* game a gameLoop call made with the orb reachable from the
\* head moves the head to a cell in bounds, off the snake and off the
\* barriers, and registers the next gameLoop; a call ends the episode only
\* with the orb out of reach, that is on aStarPolicy's random fallback.
C19_AStarEndsOnFallbackOnly ==
    (calls > 0 /\ game = "AStar") =>
        /\ OrbReachableAtCall =>
              /\ LastNewHead \in FreeAtCall
              /\ snake[1] = LastNewHead
              /\ timers = <<"gameLoop">>
        /\ timers = <<"resetGame">> =>
              /\ ~OrbReachableAtCall
              /\ aStarPolicy(atCall.snake, atCall.orb, gridSize, atCall.barriers) = DirectionSet

\* C19's case: an A* episode that has collected an orb ends on its third
\* call, on a fallback move, the orb being out of reach.
C19_Witness ==
    /\ game = "AStar"
    /\ calls = 3
    /\ timers = <<"resetGame">>
    /\ ~OrbReachableAtCall
    /\ Len(snake) = 4

----------------------------------------------------------------------------
(* The score (checked under Spec).                                         *)

\* C20: in every reachable state the score is 100 for every cell the snake
\* has above three, less the number of gameLoop calls of the current episode,
\* the one that ended it included; the snake has three cells or more, and a
\* gameLoop call of an episode leaves it no shorter than it was.
C20_ScoreFormula ==
    /\ [](/\ score = 100 * (Len(snake) - 3) - ticks
          /\ Len(snake) >= 3)
    /\ [][ticks' = ticks + 1 => Len(snake') >= Len(snake)]_vars

\* C20's case: an episode that a resetGame started has collected an orb and
\* ended.
C20_Witness ==
    /\ calls > ticks
    /\ ticks = 2
    /\ timers = <<"resetGame">>
    /\ Len(snake) = 4
    /\ score = 98

----------------------------------------------------------------------------
(* The timers (checked under Spec).                                        *)

\* C21: whenever Tk waits in its main loop exactly one callback is
\* registered, the next gameLoop or a resetGame (before main's own call of
\* gameLoop there is none): resetGame after a call that ended the episode,
\* gameLoop after every other call.  Every step runs the one registered
\* callback and makes exactly one gameLoop call, which registers exactly one
\* callback; a resetGame registers nothing but through that call, the first
\* of its episode, so the number of registered callbacks stays one over any
\* number of game overs and resets.
C21_OneTimerPending ==
    /\ [](/\ pc = "main" => timers = <<>>
          /\ pc = "mainloop" =>
                /\ Len(timers) = 1
                /\ timers[1] = (IF LastCallCollided THEN "resetGame" ELSE "gameLoop"))
    /\ [][/\ calls' = calls + 1
          /\ Len(timers') = 1
          /\ ticks' = (IF Pending("resetGame") THEN 1 ELSE ticks + 1)]_vars

\* C21's case: the third call of a run is made by a resetGame, after a game
\* over on the second call, and leaves the next gameLoop as the one
\* registered callback.
C21_Witness ==
    /\ calls = 3
    /\ ticks = 1
    /\ lastScores # <<>>
    /\ timers = <<"gameLoop">>

====
